---- MODULE Spec2Model ----
(***************************************************************************)
(* Model of the QVR Pro client in package qvrpro: the process-wide         *)
(* Connection (session id + expiry), Login / Logout, and the four-step     *)
(* playback protocol (open, seek, play, get).                              *)
(*                                                                         *)
(* The repository holds two revisions of the package, src/qvrpro.go and    *)
(* src/unnamed/part_000.  The variable rev says which one is built; the    *)
(* operations are translated from the revision rev names.                  *)
(***************************************************************************)
EXTENDS Integers, Naturals, Sequences, FiniteSets, TLC

(***************************************************************************)
(* Bounds of the model.                                                    *)
(***************************************************************************)
\* time.Now().Unix() ranges over StartTime..MaxTime
MaxTime == 4
\* seconds that may pass while one network round trip is in progress
MaxDelay == 1

(***************************************************************************)
(* Go int values.  TLC integers are 32 bits wide, status codes such as     *)
(* 0x93010006 are not, so an int is kept as hi * 2^16 + lo, 0 <= lo < 2^16.*)
(***************************************************************************)
Half == 2^16

Num(h, l) == [hi |-> h, lo |-> l]

Zero == Num(0, 0)

\* -n
Neg(n) == IF n.lo = 0 THEN Num(0 - n.hi, 0) ELSE Num(0 - n.hi - 1, Half - n.lo)

\* n * base + d
Shift(n, base, d) ==
    LET t == n.lo * base + d
    IN  Num(n.hi * base + (t \div Half), t % Half)

HexDigits == <<"0","1","2","3","4","5","6","7","8","9","A","B","C","D","E","F">>

DecDigits == <<"0","1","2","3","4","5","6","7","8","9">>

IsDigit(c, digits) == \E i \in 1..Len(digits) : digits[i] = c

DigitVal(c, digits) == (CHOOSE i \in 1..Len(digits) : digits[i] = c) - 1

\* accumulate the longest prefix of s that consists of digits of the base
RECURSIVE ParseDigits(_, _, _)
ParseDigits(s, digits, acc) ==
    IF s = <<>> \/ ~IsDigit(Head(s), digits)
    THEN acc
    ELSE ParseDigits(Tail(s), digits, Shift(acc, Len(digits), DigitVal(Head(s), digits)))

AllDigits(s, digits) == \A i \in 1..Len(s) : IsDigit(s[i], digits)

\* C: strtol(hexString, NULL, 0) on a "0x..." literal, as a long
strtol(s) ==
    IF Len(s) >= 2 /\ s[1] = "0" /\ s[2] = "x"
    THEN ParseDigits(SubSeq(s, 3, Len(s)), HexDigits, Zero)
    ELSE ParseDigits(s, DecDigits, Zero)

\* C: the long converted to the int that hexToInt returns (32 bits, wraps)
CInt(n) ==
    LET h == n.hi % Half
    IN  Num(IF h >= Half \div 2 THEN h - Half ELSE h, n.lo)

\* hexToInt, then int(n): the C int sign-extended to a Go int
convertHexToInt(hexString) == CInt(strtol(hexString))

\* strconv.Atoi: the value and whether the text is a decimal number.
\* On a syntax error the value is 0.
Atoi(s) ==
    LET signed == s # <<>> /\ Head(s) \in {"+", "-"}
        body   == IF signed THEN Tail(s) ELSE s
        ok     == body # <<>> /\ AllDigits(body, DecDigits)
        mag    == ParseDigits(body, DecDigits, Zero)
    IN  [ok  |-> ok,
         val |-> IF ~ok THEN Zero
                 ELSE IF signed /\ Head(s) = "-" THEN Neg(mag) ELSE mag]

\* strings.Split(text, "\n")
RECURSIVE Split(_, _)
Split(text, cur) ==
    IF text = <<>> THEN <<cur>>
    ELSE IF Head(text) = "\n" THEN <<cur>> \o Split(Tail(text), <<>>)
    ELSE Split(Tail(text), Append(cur, Head(text)))

Lines(text) == Split(text, <<>>)

(***************************************************************************)
(* State.                                                                  *)
(***************************************************************************)
VARIABLES
    rev,                  \* which revision of the package is built
    onceConnection,       \* sync.Once: TRUE once Create's initializer has run
    singletonConnection,  \* the Connection struct: url, sid, expire, timeout, qvrApp
    errorCodes,           \* map[int]string, filled by Create
    now,                  \* time.Now().Unix()
    aborted,              \* the program has ended in a panic or os.Exit
    last,                 \* the last call made on the package and what it returned
    callers,              \* the goroutines inside Login or Logout, and where each stands
    sidPtr                \* the data word of connection.sid while its two words are stored apart

vars ==
    <<rev, onceConnection, singletonConnection, errorCodes, now, aborted, last, callers, sidPtr>>

Old == "src/qvrpro.go"

New == "src/unnamed/part_000"

Revisions == {Old, New}

\* values the callers and the server are drawn from
Urls == {"https://nas:8080", "://nas"}

Timeouts == {-1, 2}

QvrPro == "qvrpro"

QvrElite == "qvrelite"

QvrApplications == {QvrPro, QvrElite}

Credentials == {<<"admin", "pw">>, <<"guest", "a&b">>}

AuthSids == {"", "sidA", "sidB"}

\* url.Parse succeeds
UrlParses(u) == u \notin {"://nas"}

\* the Connection before Create has run (singletonConnection is nil)
NoConnection == [url |-> "", sid |-> "", expire |-> 0, timeout |-> 0, qvrApp |-> ""]

(***************************************************************************)
(* The error-code table filled by Create.                                  *)
(***************************************************************************)
ErrorCodeLiterals == <<
    << <<"0","x","9","3","0","1","0","0","0","2">>, "failed to open play session" >>,
    << <<"0","x","9","3","0","1","0","0","0","6">>, "sid authentication failed" >>,
    << <<"0","x","9","3","0","1","0","0","0","7">>, "failed to open session (session num full)" >>,
    << <<"0","x","9","3","0","1","0","1","0","2">>, "start_time, end_time or time_val not specified" >>,
    << <<"0","x","9","3","0","1","0","1","0","3">>, "channel_id not specified" >>,
    << <<"0","x","9","3","0","1","0","1","0","4">>, "session_id not specified" >>,
    << <<"0","x","9","3","0","1","0","1","0","7">>, "seek_time not specified" >>,
    << <<"0","x","9","3","0","1","0","1","0","8">>, "session_id too long" >>,
    << <<"0","x","9","3","0","1","0","1","0","9">>, "speed_num not specified" >>,
    << <<"0","x","9","3","0","1","0","1","0","B">>, "enable not specified" >>,
    << <<"0","x","9","3","0","1","0","2","0","1">>, "failed to control stream" >>,
    << <<"0","x","9","3","0","1","0","2","0","2">>, "session not found" >>,
    << <<"0","x","9","3","0","1","0","2","0","3">>, "session is being closed" >>,
    << <<"0","x","9","3","0","1","0","2","0","4">>, "no files found" >>,
    << <<"0","x","9","3","0","1","0","0","0","3">>, "cmd is illegal" >>,
    << <<"0","x","9","3","0","1","0","0","0","4">>, "insufficient memory" >>,
    << <<"0","x","9","3","0","0","0","0","0","0">>, "Illegal Args" >>,
    << <<"0","x","9","3","0","0","0","0","0","1">>, "Rejected Connection (DDOS)" >>,
    << <<"0","x","9","3","0","0","0","0","0","2">>, "Exceeded Max Connection number" >>,
    << <<"0","x","9","3","0","0","0","0","0","3">>, "Stream not ready" >>,
    << <<"0","x","9","3","0","0","0","0","0","4">>, "Failed to start the stream" >>,
    << <<"0","x","9","3","0","0","0","0","0","5">>, "Auth failed" >> >>

\* errorCodes = make(map[int]string)
EmptyCodes == [k \in {} |-> ""]

\* errorCodes[convertHexToInt(literal)] = message, in source order
FilledCodes ==
    LET n    == Len(ErrorCodeLiterals)
        keys == {convertHexToInt(ErrorCodeLiterals[i][1]) : i \in 1..n}
        at(k) == CHOOSE i \in 1..n :
                    /\ convertHexToInt(ErrorCodeLiterals[i][1]) = k
                    /\ \A j \in 1..n : convertHexToInt(ErrorCodeLiterals[j][1]) = k => j <= i
    IN  [k \in keys |-> ErrorCodeLiterals[at(k)][2]]

(***************************************************************************)
(* What the server (or the transport) answers to one GET.                  *)
(*   transport : client.Get returns an error and no response               *)
(*   read      : io.ReadAll fails; body is what was read before            *)
(*   garbage   : a body that xml.Unmarshal rejects                         *)
(*   xml       : a QDocRoot document with authPassed and authSid           *)
(*   body      : a text body                                               *)
(***************************************************************************)
Resp(k, p, s, b) == [kind |-> k, authPassed |-> p, authSid |-> s, body |-> b]

Transport == Resp("transport", 0, "", <<>>)

ReadFail(b) == Resp("read", 0, "", b)

Garbage == Resp("garbage", 0, "", <<>>)

Auth(p, s) == Resp("xml", p, s, <<>>)

Body(b) == Resp("body", 0, "", b)

LoginResps == {Transport, ReadFail(<<>>), Garbage} \cup {Auth(p, s) : p \in {0, 1}, s \in AuthSids}

NotifyResps == {Transport, Body(<<>>)}

\* "header\n0\nSESSION123\n", shortened
OkBody == <<"h", "\n", "0", "\n", "S", "\n">>

\* status 0 and no line 2
StatusOnlyBody == <<"h", "\n", "0">>

\* status 0 and an empty line 2
EmptyIdBody == <<"h", "\n", "0", "\n", "\n">>

\* the key errorCodes holds for 0x93010006, in decimal
KnownCodeBody == <<"h", "\n", "-","1","8","2","8","6","5","1","0","0","2", "\n">>

\* 0x93010006 in decimal
HexCodeBody == <<"h", "\n", "2","4","6","6","3","1","6","2","9","4", "\n">>

\* a code that is not in the table
UnknownCodeBody == <<"h", "\n", "5", "\n">>

\* line 1 is not a number
TextBody == <<"h", "\n", "x", "\n", "S", "\n">>

\* no line 1
HeaderBody == <<"h">>

PlayBodies == {OkBody, StatusOnlyBody, EmptyIdBody, KnownCodeBody, HexCodeBody,
               UnknownCodeBody, TextBody, HeaderBody}

\* answers to the open request
OpenResps == {Transport, ReadFail(<<>>), ReadFail(StatusOnlyBody)} \cup {Body(b) : b \in PlayBodies}

\* answers to the seek and play requests
StepResps == {Transport, ReadFail(<<>>), ReadFail(StatusOnlyBody), Body(StatusOnlyBody),
              Body(KnownCodeBody), Body(UnknownCodeBody), Body(HeaderBody)}

\* answers to the get request
GetResps == {Transport, ReadFail(<<>>), Body(OkBody)}

\* the goroutines that share the Connection
Callers == {1, 2}

\* a goroutine outside Login and Logout
IdleCaller ==
    [pc |-> "idle", op |-> "none", nested |-> FALSE, authSid |-> "", half |-> "none",
     overlap |-> FALSE]

SessionIds == {<<"S">>, <<>>}

(***************************************************************************)
(* Requests: the GET a call sends.                                         *)
(***************************************************************************)
\* a request built without params.Add("sid", connection.sid)
ReqWithoutSid(c, p, s, u, w, sess) ==
    [cmd |-> c, path |-> p, sid |-> "", user |-> u, pwd |-> w, session |-> sess]

Req(c, p, s, u, w, sess) ==
    [cmd |-> c, path |-> p, sid |-> s, user |-> u, pwd |-> w, session |-> sess]

AuthLoginPath == "/cgi-bin/authLogin.cgi"

qvrPlayPath == "/qvrpro/apis/qplay.cgi"

PlayPath(r, connection) ==
    IF r = Old THEN qvrPlayPath ELSE "/" \o connection.qvrApp \o "/apis/qplay.cgi"

\* errors
nil == "nil"

ErrParse == "parse: missing protocol scheme"

ErrTransport == "Get: connection refused"

ErrRead == "unexpected EOF"

ErrPlayData == "unable to get play data"

\* how a call ends
Returned == "returned"

Panicked == "panic"

Exited == "os.Exit"

(***************************************************************************)
(* What one call did: the requests it sent, the answers it got, what it    *)
(* returned (ok: the bool result, sessionId, err) and how it ended; rets   *)
(* lists what each method called on the way returned, in call order.       *)
(***************************************************************************)
Result(rq, rs, o, sess, e, en) ==
    [reqs |-> rq, resps |-> rs, ok |-> o, sessionId |-> sess, err |-> e, end |-> en,
     rets |-> << [ok |-> o, sessionId |-> sess, err |-> e, end |-> en] >>,
     body |-> <<>>, items |-> <<>>]

\* call b made after call a returned
Then(a, b) ==
    [b EXCEPT !.reqs = a.reqs \o b.reqs, !.resps = a.resps \o b.resps, !.rets = a.rets \o b.rets]

(***************************************************************************)
(* Session: Logout and Login.                                              *)
(***************************************************************************)
\* Logout that forgets "connection.expire = 0"
ClearedSidOnly(connection) == [connection EXCEPT !.sid = ""]

\* connection.expire = 0; connection.sid = ""
Cleared(connection) == [connection EXCEPT !.expire = 0, !.sid = ""]

\* the validity test with ">=" for ">"
SessionValidAtExpiry(connection, t) == connection.sid # "" /\ connection.expire >= t

\* len(connection.sid) > 0 && connection.expire > time.Now().Unix()
SessionValid(connection, t) == connection.sid # "" /\ connection.expire > t

\* response.Body is evaluated although client.Get returned no response
NilResponse(r, o) == r = New /\ o.kind = "transport"

\* Logout: the call's result and the Connection it leaves
LogoutCall(r, connection, o) ==
    IF ~UrlParses(connection.url)
    THEN [res |-> Result(<<>>, <<>>, TRUE, <<>>, nil, Returned), conn |-> Cleared(connection)]
    ELSE LET req == Req("logout", AuthLoginPath, connection.sid, "", "", <<>>)
         IN  IF NilResponse(r, o)
             THEN [res |-> Result(<<req>>, <<o>>, FALSE, <<>>, nil, Panicked), conn |-> connection]
             ELSE [res |-> Result(<<req>>, <<o>>, TRUE, <<>>, nil, Returned), conn |-> Cleared(connection)]

\* Login that forgets "connection.sid = qdoc.AuthSid"
\* the expiry stored without "+ connection.timeout"
AuthenticatedNoTimeout(connection, o, t) ==
    [connection EXCEPT !.sid = o.authSid, !.expire = t]

AuthenticatedExpiryOnly(connection, o, t) ==
    [connection EXCEPT !.expire = t + connection.timeout]

\* connection.sid = qdoc.AuthSid; connection.expire = time.Now().Unix() + connection.timeout
Authenticated(connection, o, t) ==
    [connection EXCEPT !.sid = o.authSid, !.expire = t + connection.timeout]

\* the failure paths of Login that call connection.Logout()
LoginLogsOut(o) == o.kind \in {"transport", "read", "garbage"}

\* a method that has sent nothing so far
NoSend == Result(<<>>, <<>>, FALSE, <<>>, nil, Returned)

\* Login at time t; the answer to the request arrives at time t + d;
\* o answers the authentication request, n the logout request
LoginCall(r, connection, t, d, user, pwd, o, n) ==
    IF SessionValid(connection, t)
    THEN [res |-> Result(<<>>, <<>>, TRUE, <<>>, nil, Returned), conn |-> connection]
    ELSE IF ~UrlParses(connection.url)
    THEN LET out == LogoutCall(r, connection, n)
         IN  [res |-> [Then(NoSend, out.res) EXCEPT !.ok = FALSE], conn |-> out.conn]
    ELSE LET req  == Req("login", AuthLoginPath, "", user, pwd, <<>>)
             sent == Result(<<req>>, <<o>>, FALSE, <<>>, nil, Returned)
         IN  IF LoginLogsOut(o)
             THEN LET out == LogoutCall(r, connection, n)
                  IN  [res |-> [Then(sent, out.res) EXCEPT !.ok = FALSE], conn |-> out.conn]
             ELSE IF o.authPassed # 0
             THEN [res |-> Result(<<req>>, <<o>>, TRUE, <<>>, nil, Returned),
                   conn |-> Authenticated(connection, o, t + d)]
             ELSE [res |-> sent, conn |-> connection]

(***************************************************************************)
(* Playback: the steps open, seek, play, get.                              *)
(***************************************************************************)
\* v[i] of the source is v[i + 1] here: Go slices count from 0
HasIndex(v, i) == i + 1 <= Len(v)

Index(v, i) == v[i + 1]

\* code, _ := strconv.Atoi(v[1])
StatusCode(v) == Atoi(Index(v, 1)).val

\* "return "", err" of CreateSessionId: err is the variable declared with
\* url.Parse; the errors of client.Get, io.ReadAll and errors.New(message)
\* are held by variables of the same name declared in the inner blocks
ReturnedErr(outer, inner) == outer

\* CreateSessionId(channelId, startTime)
CreateSessionIdCall(r, connection, codes, o) ==
    LET err == IF UrlParses(connection.url) THEN nil ELSE ErrParse
        req == Req("open", PlayPath(r, connection), connection.sid, "", "", <<>>)
    IN  IF err # nil
        THEN Result(<<>>, <<>>, FALSE, <<>>, err, Returned)
        ELSE IF o.kind = "transport"
        THEN Result(<<req>>, <<o>>, FALSE, <<>>, ReturnedErr(err, ErrTransport), Returned)
        ELSE IF o.kind = "read"
        THEN Result(<<req>>, <<o>>, FALSE, <<>>, ReturnedErr(err, ErrRead), Returned)
        ELSE LET v == Lines(o.body)
                 code == StatusCode(v)
             IN  IF ~HasIndex(v, 1)
                 THEN Result(<<req>>, <<o>>, FALSE, <<>>, nil, Panicked)
                 ELSE IF code = Zero
                 THEN IF ~HasIndex(v, 2)
                      THEN Result(<<req>>, <<o>>, FALSE, <<>>, nil, Panicked)
                      ELSE Result(<<req>>, <<o>>, TRUE, Index(v, 2), nil, Returned)
                 ELSE LET inner == IF code \in DOMAIN codes THEN codes[code] ELSE nil
                      IN  Result(<<req>>, <<o>>, FALSE, <<>>, ReturnedErr(err, inner), Returned)

\* the status-line handling shared by PlaySeek and Play
StatusResult(codes, req, o) ==
    LET v == Lines(o.body)
        code == StatusCode(v)
    IN  IF ~HasIndex(v, 1)
        THEN Result(<<req>>, <<o>>, FALSE, <<>>, nil, Panicked)
        ELSE IF code # Zero /\ code \in DOMAIN codes
        THEN Result(<<req>>, <<o>>, FALSE, <<>>, codes[code], Returned)
        ELSE Result(<<req>>, <<o>>, code = Zero, <<>>, nil, Returned)

\* a step that does not test the error of client.Get before response.Body
UncheckedGet(r) == r = Old

\* PlaySeek(sessionId, seekTime)
PlaySeekCall(r, connection, codes, sessionId, o) ==
    LET req == Req("seek", PlayPath(r, connection), connection.sid, "", "", sessionId)
    IN  IF ~UrlParses(connection.url)
        THEN Result(<<>>, <<>>, FALSE, <<>>, ErrParse, Returned)
        ELSE IF o.kind = "transport"
        THEN IF UncheckedGet(r)
             THEN Result(<<req>>, <<o>>, FALSE, <<>>, nil, Panicked)
             ELSE Result(<<req>>, <<o>>, FALSE, <<>>, ErrTransport, Returned)
        ELSE StatusResult(codes, req, o)

\* Play(sessionId); play(sessionId) in src/qvrpro.go
PlayCall(r, connection, codes, sessionId, o) ==
    LET req == Req("play", PlayPath(r, connection), connection.sid, "", "", sessionId)
    IN  IF ~UrlParses(connection.url)
        THEN Result(<<>>, <<>>, FALSE, <<>>, ErrParse, Returned)
        ELSE IF o.kind = "transport"
        THEN IF UncheckedGet(r)
             THEN Result(<<req>>, <<o>>, FALSE, <<>>, nil, Panicked)
             ELSE Result(<<req>>, <<o>>, FALSE, <<>>, ErrTransport, Returned)
        ELSE StatusResult(codes, req, o)

\* PlayGet(writer, sessionId, dataType); PlayGet(sessionId) bool in src/qvrpro.go
PlayGetCall(r, connection, sessionId, o) ==
    LET req == Req("get", PlayPath(r, connection), connection.sid, "", "", sessionId)
    IN  IF ~UrlParses(connection.url)
        THEN Result(<<>>, <<>>, FALSE, <<>>, IF r = Old THEN nil ELSE ErrParse, Returned)
        ELSE IF o.kind = "transport"
        THEN IF UncheckedGet(r)
             THEN Result(<<req>>, <<o>>, FALSE, <<>>, nil, Panicked)
             ELSE Result(<<req>>, <<o>>, FALSE, <<>>, ErrTransport, Returned)
        ELSE IF o.kind = "read"
        THEN IF r = Old
             THEN Result(<<req>>, <<o>>, FALSE, <<>>, nil, Exited)
             ELSE Result(<<req>>, <<o>>, FALSE, <<>>, ErrRead, Returned)
        ELSE Result(<<req>>, <<o>>, TRUE, <<>>, nil, Returned)

\* PlayFrame / Video: "if len(sessionId) == 0 { return err }"
OpenStops(r1) == Len(r1.sessionId) = 0

\* PlayFrame that forgets to test the result of PlaySeek
SeekNeverStops(r2) == FALSE

\* "if !success { return err }" after PlaySeek
SeekStops(r2) == ~r2.ok

\* PlayFrame that forgets to test the result of Play
PlayNeverStops(r3) == FALSE

\* "if !success { return err }" after Play
PlayStops(r3) == ~r3.ok

\* what PlayFrame / Video returns after PlayGet returned r4
GetReturn(r, r4) ==
    IF r = Old /\ r4.end = Returned
    THEN [r4 EXCEPT !.err = IF r4.ok THEN nil ELSE ErrPlayData]
    ELSE r4

(***************************************************************************)
(* The other endpoints: camera list, capability, snapshot, live stream,    *)
(* logs.                                                                   *)
(***************************************************************************)
\* answers to a request whose body is returned or relayed
DataResps == {Transport, ReadFail(<<"h">>), Body(OkBody)}

\* a body that json.Unmarshal accepts
Json == Resp("json", 0, "", <<>>)

\* answers to the logs request
LogsResps == {Transport, ReadFail(<<>>), Garbage, Json}

\* the items of a LogsResponse
LogPages == {<<>>, <<"e1", "e2">>}

\* CameraListPath() and the other path methods; fixed "/qvrpro/..." paths in src/qvrpro.go
AppPath(r, connection, rest) ==
    "/" \o (IF r = Old THEN QvrPro ELSE connection.qvrApp) \o rest

\* a call that returns (body, err)
Fetched(req, o, b, e) == [Result(<<req>>, <<o>>, e = nil, <<>>, e, Returned) EXCEPT !.body = b]

\* CameraList()
CameraListCall(r, connection, o) ==
    LET req == Req("list", AppPath(r, connection, "/camera/list"), connection.sid, "", "", <<>>)
    IN  IF ~UrlParses(connection.url)
        THEN Result(<<>>, <<>>, FALSE, <<>>, ErrParse, Returned)
        ELSE IF o.kind = "transport" THEN Fetched(req, o, <<>>, ErrTransport)
        ELSE IF o.kind = "read" THEN Fetched(req, o, <<>>, ErrRead)
        ELSE Fetched(req, o, o.body, nil)

\* CameraCapability()
CameraCapabilityCall(r, connection, o) ==
    LET req == Req("capability", AppPath(r, connection, "/camera/capability"),
                   connection.sid, "", "", <<>>)
    IN  IF ~UrlParses(connection.url)
        THEN Result(<<>>, <<>>, FALSE, <<>>, ErrParse, Returned)
        ELSE IF o.kind = "transport"
        THEN IF UncheckedGet(r)
             THEN Result(<<req>>, <<o>>, FALSE, <<>>, nil, Panicked)
             ELSE Fetched(req, o, <<>>, ErrTransport)
        ELSE IF o.kind = "read" THEN Fetched(req, o, <<>>, ErrRead)
        ELSE Fetched(req, o, o.body, nil)

\* "body, _ := io.ReadAll(response.Body)": the error of the read is dropped
DroppedErr(e) == nil

\* CameraSnapshot(channelId, imageTs)
CameraSnapshotCall(r, connection, o) ==
    LET req == Req("snapshot", AppPath(r, connection, "/camera/snapshot/ch1"),
                   connection.sid, "", "", <<>>)
    IN  IF ~UrlParses(connection.url)
        THEN Result(<<>>, <<>>, FALSE, <<>>, ErrParse, Returned)
        ELSE IF o.kind = "transport" THEN Fetched(req, o, <<>>, ErrTransport)
        ELSE IF o.kind = "read" THEN Fetched(req, o, o.body, DroppedErr(ErrRead))
        ELSE Fetched(req, o, o.body, nil)

\* the constant answer of LiveStream in src/qvrpro.go, {"Not":"Finished"}
NotFinished == <<"{", "}">>

\* LiveStream(writer, channelId, streamId); LiveStream(channelId, streamId) in src/qvrpro.go
LiveStreamCall(r, connection, o) ==
    LET req == Req("getstream", AppPath(r, connection, "/streaming/getstream.cgi"),
                   connection.sid, "", "", <<>>)
    IN  IF ~UrlParses(connection.url)
        THEN Result(<<>>, <<>>, FALSE, <<>>, ErrParse, Returned)
        ELSE IF o.kind = "transport"
        THEN IF UncheckedGet(r)
             THEN Result(<<req>>, <<o>>, FALSE, <<>>, nil, Panicked)
             ELSE Fetched(req, o, <<>>, ErrTransport)
        ELSE IF o.kind = "read"
        THEN IF r = Old
             THEN Result(<<req>>, <<o>>, FALSE, <<>>, nil, Exited)
             ELSE Fetched(req, o, o.body, ErrRead)
        ELSE Fetched(req, o, IF r = Old THEN NotFinished ELSE o.body, nil)

\* qvrResponse.Items[i].Application = connection.qvrApp (src/unnamed/part_000 only)
Annotated(r, connection, page) ==
    [i \in 1..Len(page) |->
        [content |-> page[i], application |-> IF r = Old THEN "" ELSE connection.qvrApp]]

\* Logs(logType, startTime, maxResults); page is the items of the decoded answer
LogsCall(r, connection, o, page) ==
    LET req == Req("logs", AppPath(r, connection, "/logs/logs"), connection.sid, "", "", <<>>)
    IN  IF ~UrlParses(connection.url)
        THEN Result(<<>>, <<>>, TRUE, <<>>, nil, Returned)
        ELSE IF o.kind = "transport"
        THEN IF UncheckedGet(r)
             THEN Result(<<req>>, <<o>>, FALSE, <<>>, nil, Panicked)
             ELSE Result(<<req>>, <<o>>, TRUE, <<>>, nil, Returned)
        ELSE IF o.kind # "json"
        THEN Result(<<req>>, <<o>>, TRUE, <<>>, nil, Returned)
        ELSE [Result(<<req>>, <<o>>, TRUE, <<>>, nil, Returned)
                 EXCEPT !.items = Annotated(r, connection, page)]

(***************************************************************************)
(* The state machine.                                                      *)
(***************************************************************************)
Call(op, flip, res) ==
    [op |-> op, flip |-> flip, reqs |-> res.reqs, resps |-> res.resps, ok |-> res.ok,
     sessionId |-> res.sessionId, err |-> res.err, end |-> res.end, rets |-> res.rets,
     body |-> res.body, items |-> res.items]

NoResult == [NoSend EXCEPT !.rets = <<>>]

Init ==
    /\ rev \in Revisions
    /\ onceConnection = FALSE
    /\ singletonConnection = NoConnection
    /\ errorCodes = EmptyCodes
    /\ now = 1
    /\ aborted = FALSE
    /\ last = Call("none", FALSE, NoResult)
    /\ callers = [p \in Callers |-> IdleCaller]
    /\ sidPtr = ""

\* a call returns, panics or exits
Finish(op, res) ==
    /\ last' = Call(op, ~last.flip, res)
    /\ aborted' = (res.end # Returned)
    /\ UNCHANGED <<callers, sidPtr>>

\* the methods are called on the Connection that Create returned
Callable == onceConnection /\ ~aborted

\* Create without onceConnection.Do: every call builds the Connection anew
CreateEveryTime ==
    /\ ~aborted
    /\ \E u \in Urls, app \in QvrApplications, t \in Timeouts :
          /\ rev = Old => app = QvrPro
          /\ singletonConnection' =
                [url |-> u, sid |-> "", expire |-> 0, timeout |-> t, qvrApp |-> app]
          /\ errorCodes' = FilledCodes
    /\ onceConnection' = TRUE
    /\ Finish("Create", NoResult)
    /\ UNCHANGED <<rev, now>>

\* Create(url, qvrApp, timeout); Create(url, timeout) in src/qvrpro.go
Create ==
    /\ ~aborted
    /\ \E u \in Urls, app \in QvrApplications, t \in Timeouts :
          /\ rev = Old => app = QvrPro
          /\ IF onceConnection
             THEN UNCHANGED <<singletonConnection, errorCodes>>
             ELSE /\ singletonConnection' =
                        [url |-> u, sid |-> "", expire |-> 0, timeout |-> t, qvrApp |-> app]
                  /\ errorCodes' = FilledCodes
    /\ onceConnection' = TRUE
    /\ Finish("Create", NoResult)
    /\ UNCHANGED <<rev, now>>

\* the clock advances
Tick ==
    /\ ~aborted
    /\ now < MaxTime
    /\ now' = now + 1
    /\ UNCHANGED <<rev, onceConnection, singletonConnection, errorCodes, aborted, last,
                   callers, sidPtr>>

Login ==
    /\ Callable
    /\ \E c \in Credentials, o \in LoginResps, n \in NotifyResps, d \in 0..MaxDelay :
          LET out == LoginCall(rev, singletonConnection, now, d, c[1], c[2], o, n)
          IN  /\ now + d <= MaxTime
              /\ singletonConnection' = out.conn
              /\ now' = IF out.res.reqs = <<>> THEN now ELSE now + d
              /\ Finish("Login", out.res)
    /\ UNCHANGED <<rev, onceConnection, errorCodes>>

Logout ==
    /\ Callable
    /\ \E n \in NotifyResps, d \in 0..MaxDelay :
          LET out == LogoutCall(rev, singletonConnection, n)
          IN  /\ now + d <= MaxTime
              /\ singletonConnection' = out.conn
              /\ now' = IF out.res.reqs = <<>> THEN now ELSE now + d
              /\ Finish("Logout", out.res)
    /\ UNCHANGED <<rev, onceConnection, errorCodes>>

\* CreateSessionId with a connection.Logout() after a failed open
CreateSessionIdLogsOut ==
    /\ Callable
    /\ \E o \in OpenResps :
          LET res == CreateSessionIdCall(rev, singletonConnection, errorCodes, o)
          IN  /\ Finish("CreateSessionId", res)
              /\ singletonConnection' =
                    IF res.sessionId = <<>> THEN Cleared(singletonConnection)
                    ELSE singletonConnection
    /\ UNCHANGED <<rev, onceConnection, errorCodes, now>>

CreateSessionId ==
    /\ Callable
    /\ \E o \in OpenResps :
          Finish("CreateSessionId", CreateSessionIdCall(rev, singletonConnection, errorCodes, o))
    /\ UNCHANGED <<rev, onceConnection, singletonConnection, errorCodes, now>>

PlaySeek ==
    /\ Callable
    /\ \E sessionId \in SessionIds, o \in StepResps :
          Finish("PlaySeek", PlaySeekCall(rev, singletonConnection, errorCodes, sessionId, o))
    /\ UNCHANGED <<rev, onceConnection, singletonConnection, errorCodes, now>>

\* play is not exported in src/qvrpro.go
Play ==
    /\ Callable
    /\ rev = New
    /\ \E sessionId \in SessionIds, o \in StepResps :
          Finish("Play", PlayCall(rev, singletonConnection, errorCodes, sessionId, o))
    /\ UNCHANGED <<rev, onceConnection, singletonConnection, errorCodes, now>>

PlayGet ==
    /\ Callable
    /\ \E sessionId \in SessionIds, o \in GetResps :
          Finish("PlayGet", PlayGetCall(rev, singletonConnection, sessionId, o))
    /\ UNCHANGED <<rev, onceConnection, singletonConnection, errorCodes, now>>

\* PlayFrame(writer, channelId, seekTime); Video(channelId, seekTime) in src/qvrpro.go
PlayFrame ==
    /\ Callable
    /\ \E o1 \in OpenResps :
          LET r1 == CreateSessionIdCall(rev, singletonConnection, errorCodes, o1)
          IN  IF r1.end # Returned \/ OpenStops(r1)
              THEN Finish("PlayFrame", r1)
              ELSE \E o2 \in StepResps :
                LET r2 == Then(r1, PlaySeekCall(rev, singletonConnection, errorCodes, r1.sessionId, o2))
                IN  IF r2.end # Returned \/ SeekStops(r2)
                    THEN Finish("PlayFrame", r2)
                    ELSE \E o3 \in StepResps :
                      LET r3 == Then(r2, PlayCall(rev, singletonConnection, errorCodes, r1.sessionId, o3))
                      IN  IF r3.end # Returned \/ PlayStops(r3)
                          THEN Finish("PlayFrame", r3)
                          ELSE \E o4 \in GetResps :
                            Finish("PlayFrame",
                                   Then(r3, GetReturn(rev, PlayGetCall(rev, singletonConnection, r1.sessionId, o4))))
    /\ UNCHANGED <<rev, onceConnection, singletonConnection, errorCodes, now>>

CameraList ==
    /\ Callable
    /\ \E o \in DataResps : Finish("CameraList", CameraListCall(rev, singletonConnection, o))
    /\ UNCHANGED <<rev, onceConnection, singletonConnection, errorCodes, now>>

CameraCapability ==
    /\ Callable
    /\ \E o \in DataResps :
          Finish("CameraCapability", CameraCapabilityCall(rev, singletonConnection, o))
    /\ UNCHANGED <<rev, onceConnection, singletonConnection, errorCodes, now>>

CameraSnapshot ==
    /\ Callable
    /\ \E o \in DataResps :
          Finish("CameraSnapshot", CameraSnapshotCall(rev, singletonConnection, o))
    /\ UNCHANGED <<rev, onceConnection, singletonConnection, errorCodes, now>>

LiveStream ==
    /\ Callable
    /\ \E o \in DataResps : Finish("LiveStream", LiveStreamCall(rev, singletonConnection, o))
    /\ UNCHANGED <<rev, onceConnection, singletonConnection, errorCodes, now>>

Logs ==
    /\ Callable
    /\ \E o \in LogsResps, page \in LogPages :
          Finish("Logs", LogsCall(rev, singletonConnection, o, page))
    /\ UNCHANGED <<rev, onceConnection, singletonConnection, errorCodes, now>>

\* the session operations
Next ==
    \/ Create
    \/ Tick
    \/ Login
    \/ Logout

Spec == Init /\ [][Next]_vars

\* the playback operations, on a Connection that Create returned and that
\* either never logged in or holds the session of a Login made at time 1
InitPlay ==
    /\ rev \in Revisions
    /\ onceConnection = TRUE
    /\ errorCodes = FilledCodes
    /\ now = 1
    /\ aborted = FALSE
    /\ last = Call("none", FALSE, NoResult)
    /\ callers = [p \in Callers |-> IdleCaller]
    /\ sidPtr = ""
    /\ \E u \in Urls, app \in QvrApplications, t \in Timeouts :
          LET created == [url |-> u, sid |-> "", expire |-> 0, timeout |-> t, qvrApp |-> app]
          IN  /\ rev = Old => app = QvrPro
              /\ singletonConnection \in
                    IF UrlParses(u)
                    THEN {created, Authenticated(created, Auth(1, "sidA"), 1)}
                    ELSE {created}

NextPlay ==
    \/ CreateSessionId
    \/ PlaySeek
    \/ Play
    \/ PlayGet
    \/ PlayFrame

SpecPlay == InitPlay /\ [][NextPlay]_vars

\* every operation that sends a privileged request
NextApi ==
    \/ CameraList
    \/ CameraCapability
    \/ CameraSnapshot
    \/ LiveStream
    \/ Logs
    \/ CreateSessionId
    \/ PlaySeek
    \/ Play
    \/ PlayGet
    \/ PlayFrame

SpecApi == InitPlay /\ [][NextApi]_vars

(***************************************************************************)
(* Login and Logout called by several goroutines on the one Connection.    *)
(* Nothing orders their reads and writes of connection.sid and             *)
(* connection.expire: every read and every store is a step of its own, and *)
(* the two words of the string sid are stored one at a time, in either     *)
(* order.                                                                  *)
(***************************************************************************)
\* the length word of a string ("sidA" and "sidB" are as long as each other)
StrLen(s) == IF s = "" THEN 0 ELSE Len(<<"s", "i", "d", "A">>)

\* a nil data word with a length that is not 0
TornSid == "torn"

\* the string that a data word and a length word make
Str(ptr, n) == IF n = 0 THEN "" ELSE IF ptr = "" THEN TornSid ELSE ptr

\* the answers to the authentication request
RaceResps == {Transport, Auth(0, ""), Auth(1, ""), Auth(1, "sidA")}

\* goroutine p moves to c
Moved(p, c) == callers' = [callers EXCEPT ![p] = c]

\* goroutine p enters op; calls that are under way at the same time overlap
Entered(p, op, pc) ==
    callers' =
        [q \in Callers |->
            IF q = p
            THEN [IdleCaller EXCEPT !.pc = pc, !.op = op,
                                    !.overlap = \E o \in Callers \ {p} : callers[o].pc # "idle"]
            ELSE IF callers[q].pc # "idle"
            THEN [callers[q] EXCEPT !.overlap = TRUE]
            ELSE callers[q]]

\* p returns from its call
Left(p) == Moved(p, [callers[p] EXCEPT !.pc = "idle", !.nested = FALSE])

\* one of the two stores of "connection.sid = s"; after both, p goes to pc
StoreSidWord(p, s, pc) ==
    LET c == callers[p]
        words == IF c.half = "none" THEN {"ptr", "len"} ELSE {"ptr", "len"} \ {c.half}
    IN  \E w \in words :
          /\ IF w = "ptr"
             THEN /\ sidPtr' = s
                  /\ singletonConnection' =
                        [singletonConnection EXCEPT
                            !.sid = Str(s, StrLen(singletonConnection.sid))]
             ELSE /\ sidPtr' = sidPtr
                  /\ singletonConnection' =
                        [singletonConnection EXCEPT !.sid = Str(sidPtr, StrLen(s))]
          /\ IF c.half = "none"
             THEN Moved(p, [c EXCEPT !.half = w])
             ELSE IF pc = "idle"
             THEN Moved(p, [c EXCEPT !.half = "none", !.pc = "idle", !.nested = FALSE])
             ELSE Moved(p, [c EXCEPT !.half = "none", !.pc = pc])

\* connection.expire = 0 skipped
ExpireKept(connection) == connection

\* connection.expire = 0
ExpireCleared(connection) == [connection EXCEPT !.expire = 0]

\* connection.expire = time.Now().Unix() + connection.timeout
ExpireSet(connection, t) == [connection EXCEPT !.expire = t + connection.timeout]

\* Login, "len(connection.sid) > 0"
LoginReadSid ==
    /\ Callable
    /\ \E p \in Callers :
          /\ callers[p].pc = "idle"
          /\ Entered(p, "Login",
                     IF StrLen(singletonConnection.sid) > 0 THEN "readExpire" ELSE "send")
    /\ UNCHANGED <<rev, onceConnection, singletonConnection, errorCodes, now, aborted, last,
                   sidPtr>>

\* Login, "connection.expire > time.Now().Unix()" and "return true"
LoginReadExpire ==
    /\ Callable
    /\ \E p \in Callers :
          /\ callers[p].pc = "readExpire"
          /\ IF singletonConnection.expire > now
             THEN Left(p)
             ELSE Moved(p, [callers[p] EXCEPT !.pc = "send"])
    /\ UNCHANGED <<rev, onceConnection, singletonConnection, errorCodes, now, aborted, last,
                   sidPtr>>

\* Login, url.Parse and client.Get
LoginSend ==
    /\ Callable
    /\ \E p \in Callers :
          /\ callers[p].pc = "send"
          /\ IF UrlParses(singletonConnection.url)
             THEN Moved(p, [callers[p] EXCEPT !.pc = "auth"])
             ELSE Moved(p, [callers[p] EXCEPT !.pc = "logout", !.nested = TRUE])
    /\ UNCHANGED <<rev, onceConnection, singletonConnection, errorCodes, now, aborted, last,
                   sidPtr>>

\* Login, the answer to the authentication request
LoginAnswer ==
    /\ Callable
    /\ \E p \in Callers, o \in RaceResps :
          /\ callers[p].pc = "auth"
          /\ IF LoginLogsOut(o)
             THEN Moved(p, [callers[p] EXCEPT !.pc = "logout", !.nested = TRUE])
             ELSE IF o.authPassed # 0
             THEN Moved(p, [callers[p] EXCEPT !.pc = "storeSid", !.authSid = o.authSid])
             ELSE Left(p)
    /\ UNCHANGED <<rev, onceConnection, singletonConnection, errorCodes, now, aborted, last,
                   sidPtr>>

\* Login, "connection.sid = qdoc.AuthSid"
LoginStoreSid ==
    /\ Callable
    /\ \E p \in Callers :
          /\ callers[p].pc = "storeSid"
          /\ StoreSidWord(p, callers[p].authSid, "storeExpire")
    /\ UNCHANGED <<rev, onceConnection, errorCodes, now, aborted, last>>

\* Login, "connection.expire = time.Now().Unix() + connection.timeout" and "return"
LoginStoreExpire ==
    /\ Callable
    /\ \E p \in Callers :
          /\ callers[p].pc = "storeExpire"
          /\ singletonConnection' = ExpireSet(singletonConnection, now)
          /\ Left(p)
    /\ UNCHANGED <<rev, onceConnection, errorCodes, now, aborted, last, sidPtr>>

\* a goroutine calls Logout
LogoutEnter ==
    /\ Callable
    /\ \E p \in Callers :
          /\ callers[p].pc = "idle"
          /\ Entered(p, "Logout", "logout")
    /\ UNCHANGED <<rev, onceConnection, singletonConnection, errorCodes, now, aborted, last,
                   sidPtr>>

\* Logout, url.Parse, params.Add("sid", connection.sid) and client.Get; the
\* bytes of a torn sid cannot be read
LogoutSend ==
    /\ Callable
    /\ \E p \in Callers :
          /\ callers[p].pc = "logout"
          /\ IF ~UrlParses(singletonConnection.url)
             THEN Moved(p, [callers[p] EXCEPT !.pc = "clearExpire"]) /\ aborted' = aborted
             ELSE IF singletonConnection.sid = TornSid
             THEN Moved(p, [callers[p] EXCEPT !.pc = "panic"]) /\ aborted' = TRUE
             ELSE Moved(p, [callers[p] EXCEPT !.pc = "notify"]) /\ aborted' = aborted
    /\ UNCHANGED <<rev, onceConnection, singletonConnection, errorCodes, now, last, sidPtr>>

\* Logout, the answer to the logout request
LogoutAnswer ==
    /\ Callable
    /\ \E p \in Callers, n \in NotifyResps :
          /\ callers[p].pc = "notify"
          /\ IF NilResponse(rev, n)
             THEN Moved(p, [callers[p] EXCEPT !.pc = "panic"]) /\ aborted' = TRUE
             ELSE Moved(p, [callers[p] EXCEPT !.pc = "clearExpire"]) /\ aborted' = aborted
    /\ UNCHANGED <<rev, onceConnection, singletonConnection, errorCodes, now, last, sidPtr>>

\* Logout, "connection.expire = 0"
LogoutClearExpire ==
    /\ Callable
    /\ \E p \in Callers :
          /\ callers[p].pc = "clearExpire"
          /\ singletonConnection' = ExpireCleared(singletonConnection)
          /\ Moved(p, [callers[p] EXCEPT !.pc = "clearSid"])
    /\ UNCHANGED <<rev, onceConnection, errorCodes, now, aborted, last, sidPtr>>

\* Logout, "connection.sid = \"\"" and the return (of Login too, when Login called Logout)
LogoutClearSid ==
    /\ Callable
    /\ \E p \in Callers :
          /\ callers[p].pc = "clearSid"
          /\ StoreSidWord(p, "", "idle")
    /\ UNCHANGED <<rev, onceConnection, errorCodes, now, aborted, last>>

\* the Connection after Create, with no goroutine inside a call
InitRace ==
    /\ rev \in Revisions
    /\ onceConnection = TRUE
    /\ errorCodes = FilledCodes
    /\ now = 1
    /\ aborted = FALSE
    /\ last = Call("none", FALSE, NoResult)
    /\ callers = [p \in Callers |-> IdleCaller]
    /\ sidPtr = ""
    /\ \E u \in Urls, t \in Timeouts :
          singletonConnection =
              [url |-> u, sid |-> "", expire |-> 0, timeout |-> t, qvrApp |-> QvrPro]

NextRace ==
    \/ Tick
    \/ LoginReadSid
    \/ LoginReadExpire
    \/ LoginSend
    \/ LoginAnswer
    \/ LoginStoreSid
    \/ LoginStoreExpire
    \/ LogoutEnter
    \/ LogoutSend
    \/ LogoutAnswer
    \/ LogoutClearExpire
    \/ LogoutClearSid

SpecRace == InitRace /\ [][NextRace]_vars

(***************************************************************************)
(* Session claims, checked under Spec.                                     *)
(***************************************************************************)
\* the step is a call of op (every call flips last.flip)
IsCall(op) == last'.flip # last.flip /\ last'.op = op

\* the call sent the authentication request
AuthRequested(call) == \E i \in 1..Len(call.reqs) : call.reqs[i].cmd = "login"

\* the call's authentication request was answered with authPassed = 1
AuthPassed(call) ==
    \E i \in 1..Len(call.reqs) :
        /\ call.reqs[i].cmd = "login"
        /\ call.resps[i].kind = "xml"
        /\ call.resps[i].authPassed = 1

\* the authSid of that answer
PassedSid(call) ==
    call.resps[CHOOSE i \in 1..Len(call.reqs) : call.reqs[i].cmd = "login"].authSid

\* C1: a Login that does not succeed returns false and leaves the session
\* cleared (session id empty, expiry 0), whatever the session was before.
C1_FailedLoginClears ==
    (last.op = "Login" /\ ~(last.end = Returned /\ last.ok))
        => /\ last.end = Returned
           /\ singletonConnection.sid = ""
           /\ singletonConnection.expire = 0

\* C2: every Logout returns normally with session id empty and expiry 0,
\* whatever the server notification does.
C2_LogoutAlwaysClears ==
    last.op = "Logout"
        => /\ last.end = Returned
           /\ singletonConnection.sid = ""
           /\ singletonConnection.expire = 0

\* C3 as stated: Login sends the authentication request if and only if the
\* cached session is not valid (session id empty or expiry not in the
\* future); with a valid session it returns true, sends nothing and leaves
\* session id and expiry unchanged.
C3_AuthIffInvalid ==
    [][IsCall("Login") =>
          LET valid == singletonConnection.sid # "" /\ singletonConnection.expire > now
          IN  /\ AuthRequested(last') <=> ~valid
              /\ valid => /\ last'.ok /\ last'.end = Returned
                          /\ last'.reqs = <<>>
                          /\ singletonConnection' = singletonConnection]_vars

\* C3 amended: Login sends the authentication request if and only if the
\* cached session is not valid and the Connection's url parses; with a valid
\* session it returns true, sends nothing and leaves session id and expiry
\* unchanged.
C3_AuthIffInvalidAndUrlParses ==
    [][IsCall("Login") =>
          LET valid == singletonConnection.sid # "" /\ singletonConnection.expire > now
          IN  /\ AuthRequested(last') <=> (~valid /\ UrlParses(singletonConnection.url))
              /\ valid => /\ last'.ok /\ last'.end = Returned
                          /\ last'.reqs = <<>>
                          /\ singletonConnection' = singletonConnection]_vars

\* a Login has re-used the cached session after time has passed
C3_Witness ==
    /\ last.op = "Login" /\ last.ok /\ last.reqs = <<>>
    /\ singletonConnection.sid # "" /\ singletonConnection.expire > now
    /\ now > 1

\* C4 as stated: a Login answered with authPassed=1 (any authSid) returns
\* true, and a Login that follows it before the stored expiry is reached
\* sends no request.
C4_PassedThenReused ==
    [][/\ (IsCall("Login") /\ AuthPassed(last')) => (last'.ok /\ last'.end = Returned)
       /\ (/\ last.op = "Login" /\ AuthPassed(last)
           /\ IsCall("Login")
           /\ now < singletonConnection.expire) => last'.reqs = <<>>]_vars

\* C4 amended: a Login answered with authPassed=1 returns true, and when the
\* returned authSid is not empty a Login that follows it before the stored
\* expiry is reached sends no request.
C4_PassedNonEmptyThenReused ==
    [][/\ (IsCall("Login") /\ AuthPassed(last')) => (last'.ok /\ last'.end = Returned)
       /\ (/\ last.op = "Login" /\ AuthPassed(last) /\ PassedSid(last) # ""
           /\ IsCall("Login")
           /\ now < singletonConnection.expire) => last'.reqs = <<>>]_vars

\* a Login was answered authPassed=1 with a session id, and the expiry it
\* stored is still ahead
C4_Witness ==
    /\ last.op = "Login" /\ AuthPassed(last) /\ PassedSid(last) # ""
    /\ last.ok
    /\ now < singletonConnection.expire

\* C5 as stated: in every reachable state the session id is non-empty if and
\* only if the stored expiry is in the future.
C5_SidIffUnexpired ==
    onceConnection => (singletonConnection.sid # "" <=> singletonConnection.expire > now)

\* the answer authPassed=1 with an empty authSid
EmptySidStep == IsCall("Login") /\ AuthPassed(last') /\ PassedSid(last') = ""

\* C5 amended: as long as the server has not answered authPassed=1 with an
\* empty authSid, a stored expiry in the future implies a non-empty session
\* id: that implication holds initially and every step other than such an
\* answer keeps it.  (The converse does not hold: a session id stays stored
\* after its expiry has passed.)
C5_UnexpiredHasSid ==
    [][/\ ~onceConnection => (singletonConnection.sid = "" /\ singletonConnection.expire = 0)
       /\ (/\ singletonConnection.expire > now => singletonConnection.sid # ""
           /\ ~EmptySidStep)
          => (singletonConnection'.expire > now' => singletonConnection'.sid # "")]_vars

\* a session id is stored with its expiry still ahead after a Logout
\* and a new Login
C5_Witness ==
    /\ onceConnection
    /\ singletonConnection.sid = "sidB" /\ singletonConnection.expire > now
    /\ now > 2

(***************************************************************************)
(* Playback claims, checked under SpecPlay.                                *)
(***************************************************************************)
\* the commands of the requests a call sent, in order
Cmds(call) == [i \in 1..Len(call.reqs) |-> call.reqs[i].cmd]

PlaybackOrder == <<"open", "seek", "play", "get">>

\* the status line of an answer, when it has one
HasStatusLine(resp) == resp.kind \in {"body", "read"} /\ Len(Lines(resp.body)) >= 2

StatusLine(resp) == Lines(resp.body)[2]

\* C6: within one PlayFrame / Video call the steps are requested in the
\* order open, seek, play, get, each only after the step before it returned
\* success; after a failed seek neither play nor get is requested.
C6_StepsInOrder ==
    last.op = "PlayFrame"
        => /\ Len(last.reqs) <= 4
           /\ Cmds(last) = SubSeq(PlaybackOrder, 1, Len(last.reqs))
           /\ \A i \in 2..Len(last.reqs) :
                 /\ last.rets[i - 1].end = Returned
                 /\ last.rets[i - 1].ok
           /\ Len(last.reqs) >= 2 => last.rets[1].sessionId # <<>>
           /\ \A i \in 2..Len(last.reqs) : last.reqs[i].session = last.rets[1].sessionId

\* a PlayFrame whose seek failed: it ends after two requests
C6_Witness ==
    /\ last.op = "PlayFrame"
    /\ Cmds(last) = <<"open", "seek">>
    /\ ~last.rets[2].ok

\* the step answered by resp failed: no response, or a non-zero status code
StepFailed(resp) ==
    \/ resp.kind = "transport"
    \/ HasStatusLine(resp) /\ Atoi(StatusLine(resp)).val # Zero

\* C7: when the open, seek or play step of a PlayFrame call fails (transport
\* failure, recognized or unrecognized non-zero status code) PlayFrame
\* returns a non-nil error; it returns nil only after all four steps
\* succeeded.
C7_FailureReturnsError ==
    (last.op = "PlayFrame" /\ last.end = Returned)
        => /\ (\E i \in 1..Len(last.resps) : i <= 3 /\ StepFailed(last.resps[i]))
                 => last.err # nil
           /\ last.err = nil
                 => /\ Cmds(last) = PlaybackOrder
                    /\ \A i \in 1..4 : last.rets[i].ok

\* C8: when line 1 of the open answer is a non-zero status code of the
\* error-code table, CreateSessionId returns an empty session id and an
\* error whose message is the table's entry for the code.
C8_KnownCodeReturnsMessage ==
    (/\ last.op = "CreateSessionId"
     /\ Len(last.resps) = 1 /\ last.resps[1].kind = "body"
     /\ HasStatusLine(last.resps[1])
     /\ Atoi(StatusLine(last.resps[1])).val # Zero
     /\ Atoi(StatusLine(last.resps[1])).val \in DOMAIN errorCodes)
        => /\ last.end = Returned
           /\ last.sessionId = <<>>
           /\ last.err = errorCodes[Atoi(StatusLine(last.resps[1])).val]

\* CreateSessionId returned a non-empty session id and a nil error
OpenSucceeded(call) == call.end = Returned /\ call.sessionId # <<>> /\ call.err = nil

\* line 1 of the answer is the decimal number 0
StatusIsZero(resp) ==
    /\ resp.kind = "body"
    /\ HasStatusLine(resp)
    /\ Atoi(StatusLine(resp)).ok
    /\ Atoi(StatusLine(resp)).val = Zero

\* C9: CreateSessionId returns a non-empty session id with a nil error if
\* and only if line 1 of the body is the decimal status code 0, and the id is
\* then line 2 of the body; a body whose line 1 is not a decimal number is
\* not a success.
C9_SuccessIffStatusZero ==
    (last.op = "CreateSessionId" /\ Len(last.resps) = 1)
        => /\ OpenSucceeded(last) <=> StatusIsZero(last.resps[1])
           /\ OpenSucceeded(last) => last.sessionId = Lines(last.resps[1].body)[3]

\* the body has no status line, or status 0 at open and no line 2
UnexpectedLineCount(op, resp) ==
    /\ resp.kind = "body"
    /\ \/ Len(Lines(resp.body)) < 2
       \/ /\ op = "CreateSessionId"
          /\ Len(Lines(resp.body)) = 2
          /\ Atoi(StatusLine(resp)).val = Zero

\* C10: a playback step (open, seek, play) whose answer has an unexpected
\* line count returns a failure to its caller; it does not abort the program.
C10_ShortBodyReturnsFailure ==
    (/\ last.op \in {"CreateSessionId", "PlaySeek", "Play"}
     /\ Len(last.resps) = 1
     /\ UnexpectedLineCount(last.op, last.resps[1]))
        => /\ last.end = Returned
           /\ ~aborted
           /\ (last.op = "CreateSessionId" => last.sessionId = <<>>)
           /\ (last.op # "CreateSessionId" => ~last.ok)

\* the endpoint operations that return an error value
ErrorOps ==
    {"CameraList", "CameraCapability", "CameraSnapshot", "CreateSessionId",
     "PlaySeek", "Play", "PlayGet", "LiveStream"}

\* the call ended at url.Parse, or its GET failed in the transport, or the
\* read of the answer's body failed
RequestFailed(call) ==
    \/ call.reqs = <<>>
    \/ /\ call.resps # <<>>
       /\ call.resps[Len(call.resps)].kind \in {"transport", "read"}

\* C11: a call of CameraList, CameraCapability, CameraSnapshot,
\* CreateSessionId, PlaySeek, Play, PlayGet or LiveStream that meets a
\* URL-parse failure, a transport failure of the GET or a read failure of
\* the body returns a non-nil error: it neither reports success nor aborts
\* the program.
C11_FailureSurfaced ==
    (last.op \in ErrorOps /\ RequestFailed(last))
        => /\ last.end = Returned
           /\ last.err # nil
           /\ ~last.ok

\* C12: Logs returns an empty list, without panic or exit, when the base
\* URL is malformed, when the GET fails in the transport and when the body
\* is not valid JSON.
C12_LogsFailureIsEmptyList ==
    (/\ last.op = "Logs"
     /\ \/ last.reqs = <<>>
        \/ /\ last.resps # <<>>
           /\ last.resps[1].kind \in {"transport", "garbage"})
        => /\ last.end = Returned
           /\ last.items = <<>>

\* the playback operations
PlaybackOps == {"CreateSessionId", "PlaySeek", "Play", "PlayGet", "PlayFrame"}

\* C13: a call of CreateSessionId, PlaySeek, Play, PlayGet or PlayFrame,
\* whatever its outcome, leaves the Connection's session id and expiry as
\* they were.
C13_PlaybackKeepsSession ==
    [][(last'.flip # last.flip /\ last'.op \in PlaybackOps)
          => /\ singletonConnection'.sid = singletonConnection.sid
             /\ singletonConnection'.expire = singletonConnection.expire]_vars

\* a playback call has failed with a session stored
C13_Witness ==
    /\ last.op \in PlaybackOps
    /\ last.end = Returned
    /\ ~last.ok
    /\ last.sessionId = <<>>
    /\ singletonConnection.sid = "sidA"
    /\ singletonConnection.expire > now

\* the operations that send privileged requests
PrivilegedOps ==
    {"CameraList", "CameraCapability", "CameraSnapshot", "Logs", "LiveStream"}
        \cup PlaybackOps

\* C14 as stated: a privileged request is sent only while the session id is
\* not empty and the expiry is ahead.
C14_SentOnlyWithValidSession ==
    (last.op \in PrivilegedOps /\ last.reqs # <<>>)
        => /\ singletonConnection.sid # ""
           /\ singletonConnection.expire > now

\* C14 amended: every request of a privileged operation carries the session
\* id the Connection holds, empty or expired as it may be, and the operation
\* sends no authentication request of its own.
C14_SentWithStoredSid ==
    last.op \in PrivilegedOps
        => \A i \in 1..Len(last.reqs) :
              /\ last.reqs[i].sid = singletonConnection.sid
              /\ last.reqs[i].cmd # "login"

\* a camera list request went out with a session id that had expired
C14_Witness ==
    /\ last.op = "CameraList"
    /\ Len(last.reqs) = 1
    /\ last.reqs[1].sid = "sidA"
    /\ singletonConnection.sid = "sidA"
    /\ singletonConnection.expire <= now

\* C15: once the first Create has run, no step changes the Connection's url,
\* timeout or application or the error-code table, and a later Create, with
\* whatever arguments, leaves the whole Connection, session id and expiry
\* included, as it was.
C15_CreatedOnce ==
    [][onceConnection
          => /\ onceConnection'
             /\ singletonConnection'.url = singletonConnection.url
             /\ singletonConnection'.timeout = singletonConnection.timeout
             /\ singletonConnection'.qvrApp = singletonConnection.qvrApp
             /\ errorCodes' = errorCodes
             /\ (last'.flip # last.flip /\ last'.op = "Create")
                   => /\ singletonConnection'.sid = singletonConnection.sid
                      /\ singletonConnection'.expire = singletonConnection.expire]_vars

\* a Create call has returned while a session was stored
C15_Witness ==
    /\ last.op = "Create"
    /\ onceConnection
    /\ singletonConnection.sid = "sidA"
    /\ singletonConnection.expire > now

\* C16: of the goroutines that call Login at the same time, at most one has
\* its authentication request under way.
C16_OneAuthenticationInFlight ==
    Cardinality({p \in Callers : callers[p].op = "Login" /\ callers[p].pc = "auth"}) <= 1

\* an empty session id stored with an expiry that lies ahead
EmptySidFutureExpiry ==
    /\ singletonConnection.sid = ""
    /\ singletonConnection.expire # 0
    /\ singletonConnection.expire > now

\* C17: the state with an empty session id and an expiry ahead is reached
\* (C17_Witness) and only a race reaches it: the step that makes it is a
\* step of a call that ran while another call was under way, unless the
\* server answered a Login with authPassed=1 and an empty authSid.
C17_OnlyRaceTearsSession ==
    [][(~EmptySidFutureExpiry /\ EmptySidFutureExpiry')
          => \E p \in Callers :
                /\ callers'[p] # callers[p]
                /\ \/ callers[p].overlap
                   \/ callers[p].op = "Login" /\ callers[p].authSid = ""]_vars

\* a Login that stored "sidA" and a Logout have run at the same time and both
\* have returned: the session id is empty, the expiry is ahead
C17_Witness ==
    /\ EmptySidFutureExpiry
    /\ \E p, q \in Callers :
          /\ callers[p].pc = "idle" /\ callers[p].op = "Login"
          /\ callers[p].authSid = "sidA" /\ callers[p].overlap
          /\ callers[q].pc = "idle" /\ callers[q].op = "Logout" /\ callers[q].overlap

\* C18: one PlayFrame / Video call sends no command twice, sends nothing
\* after a step that failed, and so sends at most four requests; it starts
\* at open, without a playback session id, and its later requests carry the
\* session id that its own open request was answered with.
C18_NoRetry ==
    last.op = "PlayFrame"
        => /\ \A i, j \in 1..Len(last.reqs) :
                 last.reqs[i].cmd = last.reqs[j].cmd => i = j
           /\ \A i \in 1..Len(last.reqs) :
                 (last.rets[i].end # Returned \/ ~last.rets[i].ok) => i = Len(last.reqs)
           /\ Len(last.reqs) <= Cardinality({"open", "seek", "play", "get"})
           /\ last.reqs # <<>>
                 => /\ last.reqs[1].cmd = "open"
                    /\ last.reqs[1].session = <<>>
           /\ \A i \in 2..Len(last.reqs) :
                 /\ last.resps[1].kind = "body"
                 /\ last.reqs[i].session = Lines(last.resps[1].body)[3]
                 /\ last.reqs[i].session # <<>>

\* a PlayFrame whose play step failed: it ends after three requests
C18_Witness ==
    /\ last.op = "PlayFrame"
    /\ Len(last.reqs) = 3
    /\ last.reqs[3].cmd = "play"
    /\ last.rets[3].end = Returned
    /\ ~last.rets[3].ok

\* C19: a step changes the stored expiry only to 0 or, in a Login whose
\* authentication request was answered with authPassed=1, to the time of
\* that step plus the timeout; a Login that re-uses the cached session
\* changes nothing, and happens only with a timeout above 0 and before the
\* stored expiry.
C19_ExpiryFromAuthentication ==
    [][onceConnection
          => /\ singletonConnection'.expire # singletonConnection.expire
                   => \/ singletonConnection'.expire = 0
                      \/ /\ last'.flip # last.flip /\ last'.op = "Login"
                         /\ AuthPassed(last')
                         /\ singletonConnection'.expire = now' + singletonConnection.timeout
             /\ (/\ last'.flip # last.flip /\ last'.op = "Login"
                 /\ last'.reqs = <<>> /\ last'.ok)
                   => /\ singletonConnection' = singletonConnection
                      /\ singletonConnection.timeout > 0
                      /\ now < singletonConnection.expire]_vars

\* a Login has re-used the session in the last second before its expiry,
\* which is still the one the authentication stored
C19_Witness ==
    /\ last.op = "Login" /\ last.ok /\ last.reqs = <<>>
    /\ singletonConnection.timeout = 2
    /\ singletonConnection.expire = now + 1

\* C20: after Create every hexadecimal literal of the table is a key under
\* its unsigned value (0x93010006 under 2466316294, which is 37633 * 2^16 +
\* 6), with its own message, so that a status line with that value in
\* decimal is found.
C20_KeysAreUnsignedValues ==
    onceConnection
        => /\ \A i \in 1..Len(ErrorCodeLiterals) :
                 /\ strtol(ErrorCodeLiterals[i][1]) \in DOMAIN errorCodes
                 /\ errorCodes[strtol(ErrorCodeLiterals[i][1])] = ErrorCodeLiterals[i][2]
           /\ Num(37633, 6) \in DOMAIN errorCodes
           /\ Atoi(Lines(HexCodeBody)[2]).val \in DOMAIN errorCodes

====
